---- MODULE Spec2Model ----
(***************************************************************************)
(* A model of the LiveKit + Twilio demonstration scripts:                  *)
(*   demo.py               create_twilio_outbound_trunk()                  *)
(*   make_call.py          make_outbound_call()                            *)
(*   outbound_agent.py     main(), entrypoint(), __main__                  *)
(*   outbound_annotated.py main(), entrypoint(), __main__ (same code)      *)
(*   inbound_agent.py      setup_inbound(), entrypoint(), __main__         *)
(*   main.py               entrypoint(), __main__                          *)
(* One behaviour is one invocation of one script: Init draws the script,   *)
(* its command line and its environment; every action is one step of the   *)
(* script between two suspension points (awaits), together with the        *)
(* outcome of the remote operation it awaits.                              *)
(***************************************************************************)
EXTENDS Integers, Sequences, FiniteSets, TLC

\* Number of jobs the worker runtime may assign to one worker process.
NumJobs == 2

\* Number of times the operator runs the script, one run after the other.
MaxRuns == 2

Jobs == 1..NumJobs

\* Python's None (os.getenv of an unset name, dict.get of a missing key).
None == "None"

\* None where the value, if set, is a text given by its characters.
NoneText == <<"None">>

\* ------------------------------------------------------------------------
\* Text.  Strings whose characters the code inspects are sequences of
\* one-character strings, so that replace(), lower() and "in" are computed.
\* ------------------------------------------------------------------------

\* str.lower() on one character.
LowerChar(c) ==
    CASE c = "A" -> "a" [] c = "B" -> "b" [] c = "C" -> "c" [] c = "D" -> "d"
      [] c = "E" -> "e" [] c = "F" -> "f" [] c = "G" -> "g" [] c = "H" -> "h"
      [] c = "I" -> "i" [] c = "J" -> "j" [] c = "K" -> "k" [] c = "L" -> "l"
      [] c = "M" -> "m" [] c = "N" -> "n" [] c = "O" -> "o" [] c = "P" -> "p"
      [] c = "Q" -> "q" [] c = "R" -> "r" [] c = "S" -> "s" [] c = "T" -> "t"
      [] c = "U" -> "u" [] c = "V" -> "v" [] c = "W" -> "w" [] c = "X" -> "x"
      [] c = "Y" -> "y" [] c = "Z" -> "z" [] OTHER -> c

\* str.lower()
Lower(s) == [i \in 1..Len(s) |-> LowerChar(s[i])]

\* needle in hay (substring test)
Contains(hay, needle) ==
    \E i \in 0..(Len(hay) - Len(needle)) :
        \A k \in 1..Len(needle) : hay[i + k] = needle[k]

\* s.replace('+', '')
StripPlus(s) == SelectSeq(s, LAMBDA c : c # "+")

\* The literal "already exists" of the except clause.
ALREADY_EXISTS == <<"a","l","r","e","a","d","y"," ","e","x","i","s","t","s">>

\* The literal prefix "call-" of the room name.
CALL_PREFIX == <<"c","a","l","l","-">>

\* Error messages a control-plane operation may carry.
MsgExistsLower == <<"4","0","9"," ">> \o ALREADY_EXISTS
MsgExistsMixed == <<"T","r","u","n","k"," ","A","l","r","e","a","d","y"," ",
                    "E","x","i","s","t","s">>
MsgDenied      == <<"d","e","n","i","e","d">>
MsgNoAttr      == <<"n","o"," ","a","t","t","r">>

\* ------------------------------------------------------------------------
\* Inputs
\* ------------------------------------------------------------------------
Scripts == {"demo", "make_call", "outbound_agent", "outbound_annotated",
            "inbound_agent", "main"}

\* sys.argv[1:], at most one positional argument.
Argvs == {<< >>, <<"agent">>, <<"setup">>, <<"AGENT">>, <<"Setup">>, <<"bogus">>}

\* str.lower() of a command-line word.
LowerWord(w) ==
    CASE w = "AGENT" -> "agent" [] w = "Setup" -> "setup" [] OTHER -> w

Addresses == {"demo.pstn.example.com", "other.pstn.example.com"}
Numbers   == {"+15551230000", "+15559870000"}
Usernames == {"user", "pass"}
Passwords == {"pass", "user"}
Phones    == {<<"+","1","5">>, <<"+","4","4">>}
TrunkIds  == {"TR_1", "TR_2"}
RuleIds   == {"SDR_1"}

\* Responses of create_sip_participant.
ParticipantInfos ==
    { [sip_call_id |-> "SCL_1", participant_id |-> "PA_1",
       room_name |-> "outbound-test-call"],
      [sip_call_id |-> "SCL_2", participant_id |-> "PA_2",
       room_name |-> "call-15"] }

\* No response received (yet).
NoParticipant ==
    [sip_call_id |-> None, participant_id |-> None, room_name |-> None]

\* The environment of one invocation.  creds stands for LIVEKIT_URL,
\* LIVEKIT_API_KEY and LIVEKIT_API_SECRET being set; call_to is SIP_CALL_TO
\* and trunk_id is SIP_TRUNK_ID, either of which may be unset.
Envs ==
    [creds : BOOLEAN, address : Addresses, number : Numbers,
     username : Usernames, password : Passwords,
     call_to : Phones \cup {NoneText}, trunk_id : TrunkIds \cup {None}]

\* ------------------------------------------------------------------------
\* Exceptions
\* ------------------------------------------------------------------------
NoExc == [kind |-> "none", code |-> "", message |-> << >>, metadata |-> {}]

\* dict.get(key) on a metadata given as a set of <<key, value>> pairs.
Get(md, key) ==
    IF \E p \in md : p[1] = key
    THEN (CHOOSE p \in md : p[1] = key)[2]
    ELSE None

\* Python truthiness of a str-or-None value.
Truthy(v) == v # None /\ v # ""

Metadatas ==
    { {},
      {<<"sip_status_code", "486">>},
      {<<"sip_status", "Busy Here">>, <<"sip_status_code", "486">>},
      {<<"sip_status", "Not Found">>, <<"sip_status_code", "404">>},
      {<<"sip_status", "">>, <<"sip_status_code", "486">>},
      {<<"sip_status", "Busy Here">>} }

\* Errors of trunk and dispatch-rule operations.
ControlErrors ==
    { [kind |-> "TwirpError", code |-> "already_exists",
       message |-> MsgExistsLower, metadata |-> {}],
      [kind |-> "TwirpError", code |-> "already_exists",
       message |-> MsgExistsMixed, metadata |-> {}],
      [kind |-> "TwirpError", code |-> "permission_denied",
       message |-> MsgDenied, metadata |-> {}],
      [kind |-> "ClientError", code |-> "",
       message |-> MsgDenied, metadata |-> {}] }

\* Errors of the call-placement operation.
CallErrors ==
    { [kind |-> "TwirpError", code |-> "unavailable",
       message |-> MsgDenied, metadata |-> md] : md \in Metadatas }
    \cup
    { [kind |-> "ClientError", code |-> "",
       message |-> MsgDenied, metadata |-> {}] }

\* str(e): the text of an exception carries its message.
Str(e) == e.message

VARIABLES
    script,       \* which script runs
    argv,         \* sys.argv[1:]
    env,          \* the environment
    pc,           \* position of the script's main coroutine
    exitStatus,   \* -1 while running, else the process exit status
    client,       \* "none", "open" or "closed": the LiveKitAPI handle
    acloseCount,  \* number of lk_api.aclose() calls
    calls,        \* control-plane interactions issued, in order
    trunkReqs,    \* outbound/inbound trunk-creation requests sent
    callReqs,     \* call-placement requests sent
    ruleReqs,     \* dispatch-rule requests sent
    trunk_id,     \* the local variable trunk_id
    returnedId,   \* the identifier the trunk-creation response carried
    exc,          \* the exception being handled or propagating
    out,          \* printed lines, each <<tag, argument>>
    worker,       \* TRUE once agents.cli.run_app was called
    jpc,          \* per job: position of its entrypoint coroutine
    jlog,         \* per job: the steps it has performed, in order
    jsession,     \* per job: the AgentSession it constructed (0: none)
    joined,       \* per job: the remote participant is in the room
    sessions,     \* number of AgentSession objects constructed
    participant,  \* the response of create_sip_participant (None: none yet)
    run,          \* which invocation of the script this is (1, 2, ...)
    priorTrunkReqs, \* trunk-creation requests sent by the earlier invocations
    remoteTrunks  \* trunks the earlier and this invocation created remotely

vars == <<script, argv, env, pc, exitStatus, client, acloseCount, calls,
          trunkReqs, callReqs, ruleReqs, trunk_id, returnedId, exc, out,
          worker, jpc, jlog, jsession, joined, sessions, participant, run,
          priorTrunkReqs, remoteTrunks>>

procVars == <<pc, exitStatus, client, acloseCount, calls, trunkReqs,
              callReqs, ruleReqs, trunk_id, returnedId, exc, out, participant>>
runVars  == <<run, priorTrunkReqs>>
jobVars  == <<jpc, jlog, jsession, joined, sessions>>
inputs   == <<script, argv, env>>

\* Scripts whose __main__ block reads sys.argv.
ModeScripts == {"outbound_agent", "outbound_annotated", "inbound_agent"}

\* The invocations that end in agents.cli.run_app: none of them reads an
\* addressing value of the environment, so one environment stands for all.
StartsWorker(s, a) ==
    \/ s = "main"
    \/ s \in {"outbound_agent", "outbound_annotated"}
          /\ Len(a) > 0 /\ a[1] = "agent"
    \/ s = "inbound_agent" /\ Len(a) > 0 /\ LowerWord(a[1]) = "agent"

DefaultEnv ==
    [creds |-> TRUE, address |-> "demo.pstn.example.com",
     number |-> "+15551230000", username |-> "user", password |-> "pass",
     call_to |-> <<"+","1","5">>, trunk_id |-> "TR_1"]

Init ==
    /\ script \in Scripts
    /\ argv \in (IF script \in ModeScripts THEN Argvs ELSE {<< >>})
    /\ env \in (IF StartsWorker(script, argv) THEN {DefaultEnv} ELSE Envs)
    /\ pc = "__main__"
    /\ exitStatus = -1
    /\ client = "none"
    /\ acloseCount = 0
    /\ calls = << >>
    /\ trunkReqs = << >>
    /\ callReqs = << >>
    /\ ruleReqs = << >>
    /\ trunk_id = None
    /\ returnedId = None
    /\ exc = NoExc
    /\ out = << >>
    /\ worker = FALSE
    /\ jpc = [j \in Jobs |-> "unassigned"]
    /\ jlog = [j \in Jobs |-> << >>]
    /\ jsession = [j \in Jobs |-> 0]
    /\ joined = [j \in Jobs |-> FALSE]
    /\ sessions = 0
    /\ participant = NoParticipant
    /\ run = 1
    /\ priorTrunkReqs = 0
    /\ remoteTrunks = 0


\* ------------------------------------------------------------------------
\* Helpers shared by the scripts
\* ------------------------------------------------------------------------

\* print(...): the lines are appended to standard output.
print(lines) == out' = out \o lines

\* A remote operation is sent on the client.
Issue(op) == calls' = Append(calls, op)

\* An exception leaves asyncio.run(): traceback, exit status 1.
Uncaught(e) ==
    /\ exc' = e
    /\ pc' = "exited"
    /\ exitStatus' = 1

\* pydantic's ValidationError, raised by Settings() for a missing field.
ValidationError ==
    [kind |-> "ValidationError", code |-> "", message |-> MsgDenied,
     metadata |-> {}]

\* ValueError of api.LiveKitAPI(url, api_key, api_secret) when one is unset.
ValueError ==
    [kind |-> "ValueError", code |-> "", message |-> MsgDenied,
     metadata |-> {}]

\* AttributeError of None.replace(...).
AttributeError ==
    [kind |-> "AttributeError", code |-> "", message |-> MsgNoAttr,
     metadata |-> {}]

\* lk_api.aclose()
\* A release that takes effect ahead of the operation issued last.
aclose_Early ==
    /\ client' = "closed"
    /\ acloseCount' = acloseCount + 1
    /\ calls' = IF calls = << >> THEN <<"aclose">>
                ELSE SubSeq(calls, 1, Len(calls) - 1)
                     \o <<"aclose", calls[Len(calls)]>>

aclose ==
    /\ client' = "closed"
    /\ acloseCount' = acloseCount + 1
    /\ Issue("aclose")

\* ------------------------------------------------------------------------
\* demo.py
\* ------------------------------------------------------------------------

\* class Settings(BaseSettings) of demo.py: every field is required.
DemoSettingsOk(e) == e.creds

\* SIPOutboundTrunkInfo(...) of demo.py
DemoTrunkInfo(e) ==
    [name |-> "Twilio Outbound", address |-> e.address,
     numbers |-> <<e.number>>, auth_username |-> e.username,
     auth_password |-> e.password]

\* asyncio.run(create_twilio_outbound_trunk()): Settings(), LiveKitAPI(...)
demo_Start ==
    /\ script = "demo" /\ pc = "__main__"
    /\ IF DemoSettingsOk(env)
       THEN /\ client' = "open"
            /\ pc' = "demo_trunk"
            /\ UNCHANGED <<exitStatus, exc>>
       ELSE /\ Uncaught(ValidationError)
            /\ UNCHANGED client
    /\ UNCHANGED <<inputs, runVars, participant, remoteTrunks, jobVars, worker, acloseCount, calls, trunkReqs,
                   callReqs, ruleReqs, trunk_id, returnedId, out>>

\* trunk = await lk_api.sip.create_sip_outbound_trunk(...); print(...)
demo_CreateTrunk ==
    /\ script = "demo" /\ pc = "demo_trunk"
    /\ trunkReqs' = Append(trunkReqs, DemoTrunkInfo(env))
    /\ Issue("create_sip_outbound_trunk")
    /\ \/ \E id \in TrunkIds :
            /\ returnedId' = id
            /\ remoteTrunks' = remoteTrunks + 1
            /\ print(<< <<"Outbound trunk created", id>> >>)
            /\ pc' = "demo_close"
            /\ UNCHANGED <<exc, exitStatus>>
       \/ \E e \in ControlErrors :
            /\ Uncaught(e)
            /\ UNCHANGED <<returnedId, out, remoteTrunks>>
    /\ UNCHANGED <<inputs, runVars, participant, jobVars, worker, client, acloseCount, callReqs,
                   ruleReqs, trunk_id>>

\* await lk_api.aclose(); the coroutine returns
demo_Close ==
    /\ script = "demo" /\ pc = "demo_close"
    /\ aclose
    /\ pc' = "exited"
    /\ exitStatus' = 0
    /\ UNCHANGED <<inputs, runVars, participant, remoteTrunks, jobVars, worker, trunkReqs, callReqs, ruleReqs,
                   trunk_id, returnedId, exc, out>>

\* ------------------------------------------------------------------------
\* outbound_agent.py and outbound_annotated.py: main()
\* ------------------------------------------------------------------------
Outbound == {"outbound_agent", "outbound_annotated"}

\* api.LiveKitAPI(LIVEKIT_URL, LIVEKIT_API_KEY, LIVEKIT_API_SECRET) with
\* values of os.getenv: the constructor refuses unset values.
LiveKitAPIOk(e) == e.creds

\* MainTrunkInfo with the two credentials exchanged.
MainTrunkInfo_Swapped(e) ==
    [name |-> "Twilio Outbound", address |-> e.address,
     numbers |-> <<e.number>>, auth_username |-> e.password,
     auth_password |-> e.username]

\* SIPOutboundTrunkInfo(...) of main()
MainTrunkInfo(e) ==
    [name |-> "Twilio Outbound", address |-> e.address,
     numbers |-> <<e.number>>, auth_username |-> e.username,
     auth_password |-> e.password]

\* MainTrunkId with a hard-coded identifier instead of the response's.
MainTrunkId_Stale(trunk) == "TR_1"

\* trunk_id = trunk.sip_trunk_id
MainTrunkId(trunk) == trunk.sip_trunk_id

\* CreateSIPParticipantRequest(...) of main()
MainCallRequest(tid, to) ==
    [sip_trunk_id |-> tid, sip_call_to |-> to,
     room_name |-> CALL_PREFIX \o StripPlus(to),
     participant_identity |-> "ai-caller",
     participant_name |-> "AI Assistant",
     krisp_enabled |-> TRUE, wait_until_answered |-> TRUE]

\* if len(sys.argv) > 1 and sys.argv[1] == "agent"
OutboundIsAgent(a) == Len(a) > 0 /\ a[1] = "agent"

\* __main__ of the outbound scripts, agent branch: pop the word, run_app
\* outbound_RunAgent leaving the argument where it is.
outbound_RunAgent_KeepArg ==
    /\ script \in Outbound /\ pc = "__main__"
    /\ OutboundIsAgent(argv)
    /\ worker' = TRUE
    /\ pc' = "run_app"
    /\ UNCHANGED <<inputs, runVars, participant, remoteTrunks, jobVars,
                   exitStatus, client, acloseCount, calls, trunkReqs,
                   callReqs, ruleReqs, trunk_id, returnedId, exc, out>>

outbound_RunAgent ==
    /\ script \in Outbound /\ pc = "__main__"
    /\ OutboundIsAgent(argv)
    /\ argv' = Tail(argv)
    /\ worker' = TRUE
    /\ pc' = "run_app"
    /\ UNCHANGED <<script, env, runVars, participant, remoteTrunks, jobVars, exitStatus, client, acloseCount,
                   calls, trunkReqs, callReqs, ruleReqs, trunk_id,
                   returnedId, exc, out>>

\* __main__ of the outbound scripts, else branch: asyncio.run(main()),
\* up to the first await: lk_api = api.LiveKitAPI(...)
outbound_RunMain ==
    /\ script \in Outbound /\ pc = "__main__"
    /\ ~OutboundIsAgent(argv)
    /\ IF LiveKitAPIOk(env)
       THEN /\ client' = "open"
            /\ pc' = "main_trunk"
            /\ UNCHANGED <<exitStatus, exc>>
       ELSE /\ Uncaught(ValueError)
            /\ UNCHANGED client
    /\ UNCHANGED <<inputs, runVars, participant, remoteTrunks, jobVars, worker, acloseCount, calls, trunkReqs,
                   callReqs, ruleReqs, trunk_id, returnedId, out>>

\* main_CreateTrunk with the trunk error swallowed: the call is placed anyway.
main_CreateTrunk_Swallow ==
    /\ script \in Outbound /\ pc = "main_trunk"
    /\ trunkReqs' = Append(trunkReqs, MainTrunkInfo(env))
    /\ Issue("create_sip_outbound_trunk")
    /\ \/ \E id \in TrunkIds :
            /\ returnedId' = id
            /\ remoteTrunks' = remoteTrunks + 1
            /\ trunk_id' = MainTrunkId([sip_trunk_id |-> id])
            /\ print(<< <<"Creating SIP trunk...", "">>,
                        <<"Trunk created", trunk_id'>> >>)
            /\ pc' = "main_call"
            /\ UNCHANGED exc
       \/ \E e \in ControlErrors :
            /\ exc' = e
            /\ print(<< <<"Creating SIP trunk...", "">> >>)
            /\ pc' = "main_call"
            /\ UNCHANGED <<returnedId, trunk_id, remoteTrunks>>
    /\ UNCHANGED <<inputs, runVars, participant, jobVars, worker, exitStatus, client, acloseCount,
                   callReqs, ruleReqs>>

\* Step 1 of main(): create the outbound trunk, keep its identifier
\* A first step that reuses the trunk an earlier run created.
main_CreateTrunk_Cached ==
    /\ script \in Outbound /\ pc = "main_trunk"
    /\ \/ /\ remoteTrunks > 0
          /\ trunk_id' = "TR_1"
          /\ print(<< <<"Trunk created", trunk_id'>> >>)
          /\ pc' = "main_call"
          /\ UNCHANGED <<trunkReqs, calls, returnedId, remoteTrunks, exc>>
       \/ /\ remoteTrunks = 0
          /\ trunkReqs' = Append(trunkReqs, MainTrunkInfo(env))
          /\ Issue("create_sip_outbound_trunk")
          /\ \/ \E id \in TrunkIds :
                  /\ returnedId' = id
                  /\ remoteTrunks' = remoteTrunks + 1
                  /\ trunk_id' = MainTrunkId([sip_trunk_id |-> id])
                  /\ print(<< <<"Creating SIP trunk...", "">>,
                              <<"Trunk created", trunk_id'>> >>)
                  /\ pc' = "main_call"
                  /\ UNCHANGED exc
             \/ \E e \in ControlErrors :
                  /\ exc' = e
                  /\ print(<< <<"Creating SIP trunk...", "">> >>)
                  /\ pc' = "main_except"
                  /\ UNCHANGED <<returnedId, trunk_id, remoteTrunks>>
    /\ UNCHANGED <<inputs, runVars, participant, jobVars, worker, exitStatus,
                   client, acloseCount, callReqs, ruleReqs>>

main_CreateTrunk ==
    /\ script \in Outbound /\ pc = "main_trunk"
    /\ trunkReqs' = Append(trunkReqs, MainTrunkInfo(env))
    /\ Issue("create_sip_outbound_trunk")
    /\ \/ \E id \in TrunkIds :
            /\ returnedId' = id
            /\ remoteTrunks' = remoteTrunks + 1
            /\ trunk_id' = MainTrunkId([sip_trunk_id |-> id])
            /\ print(<< <<"Creating SIP trunk...", "">>,
                        <<"Trunk created", trunk_id'>> >>)
            /\ pc' = "main_call"
            /\ UNCHANGED exc
       \/ \E e \in ControlErrors :
            /\ exc' = e
            /\ print(<< <<"Creating SIP trunk...", "">> >>)
            /\ pc' = "main_except"
            /\ UNCHANGED <<returnedId, trunk_id, remoteTrunks>>
    /\ UNCHANGED <<inputs, runVars, participant, jobVars, worker, exitStatus, client, acloseCount,
                   callReqs, ruleReqs>>

\* Step 2 of main(): place the call
main_PlaceCall ==
    /\ script \in Outbound /\ pc = "main_call"
    /\ \/ /\ env.call_to = NoneText       \* TARGET_PHONE.replace raises
          /\ exc' = AttributeError
          /\ print(<< <<"Calling", env.call_to>> >>)
          /\ pc' = "main_except"
          /\ UNCHANGED <<callReqs, calls, participant>>
       \/ /\ env.call_to # NoneText
          /\ callReqs' = Append(callReqs, MainCallRequest(trunk_id, env.call_to))
          /\ Issue("create_sip_participant")
          /\ \/ \E p \in ParticipantInfos :  \* the response is discarded
                  /\ participant' = p
                  /\ print(<< <<"Calling", env.call_to>>,
                              <<"Call initiated", "">> >>)
                  /\ pc' = "main_finally"
                  /\ UNCHANGED exc
             \/ \E e \in CallErrors :
                  /\ exc' = e
                  /\ print(<< <<"Calling", env.call_to>> >>)
                  /\ pc' = "main_except"
                  /\ UNCHANGED participant
    /\ UNCHANGED <<inputs, runVars, remoteTrunks, jobVars, worker, exitStatus, client, acloseCount,
                   trunkReqs, ruleReqs, trunk_id, returnedId>>

\* except Exception as e: print(f"Error: {e}")
\* A handler that issues the failed operation a second time.
main_Except_Retry ==
    /\ script \in Outbound /\ pc = "main_except"
    /\ print(<< <<"Error", Str(exc)>> >>)
    /\ Issue(calls[Len(calls)])
    /\ pc' = "main_finally"
    /\ UNCHANGED <<inputs, runVars, participant, remoteTrunks, jobVars, worker,
                   exitStatus, client, acloseCount, trunkReqs, callReqs,
                   ruleReqs, trunk_id, returnedId, exc>>

main_Except ==
    /\ script \in Outbound /\ pc = "main_except"
    /\ print(<< <<"Error", Str(exc)>> >>)
    /\ pc' = "main_finally"
    /\ UNCHANGED <<inputs, runVars, participant, remoteTrunks, jobVars, worker, exitStatus, client, acloseCount,
                   calls, trunkReqs, callReqs, ruleReqs, trunk_id,
                   returnedId, exc>>

\* finally: await lk_api.aclose(); main() returns, the process exits 0
\* A finally clause after which the pending error is raised again.
main_Finally_Reraise ==
    /\ script \in Outbound /\ pc = "main_finally"
    /\ aclose
    /\ pc' = "exited"
    /\ exitStatus' = (IF exc = NoExc THEN 0 ELSE 1)
    /\ UNCHANGED <<inputs, runVars, participant, remoteTrunks, jobVars, worker,
                   trunkReqs, callReqs, ruleReqs, trunk_id, returnedId, exc,
                   out>>

main_Finally ==
    /\ script \in Outbound /\ pc = "main_finally"
    /\ aclose
    /\ pc' = "exited"
    /\ exitStatus' = 0
    /\ UNCHANGED <<inputs, runVars, participant, remoteTrunks, jobVars, worker, trunkReqs, callReqs, ruleReqs,
                   trunk_id, returnedId, exc, out>>


\* ------------------------------------------------------------------------
\* inbound_agent.py: __main__ and setup_inbound()
\* ------------------------------------------------------------------------

\* SIPInboundTrunkInfo(...) of setup_inbound()
InboundTrunkInfo(e) ==
    [name |-> "Twilio Inbound", numbers |-> <<e.number>>]

\* SIPDispatchRuleInfo(...) of setup_inbound()
\* A rule that names no trunk, and so applies to every trunk.
DispatchRuleInfo_AnyTrunk(tid) ==
    [name |-> "Route to AI Agent", trunk_ids |-> << >>,
     room_prefix |-> CALL_PREFIX, hide_phone_number |-> FALSE]

DispatchRuleInfo(tid) ==
    [name |-> "Route to AI Agent", trunk_ids |-> <<tid>>,
     room_prefix |-> CALL_PREFIX, hide_phone_number |-> FALSE]

\* "already exists" in str(e).lower()
IsAlreadyExists(e) == Contains(Lower(Str(e)), ALREADY_EXISTS)

\* command = sys.argv[1].lower()
InboundCommand(a) == LowerWord(a[1])

\* if len(sys.argv) < 2: print usage, sys.exit(1)
inbound_Usage ==
    /\ script = "inbound_agent" /\ pc = "__main__"
    /\ Len(argv) < 1
    /\ print(<< <<"Usage:", "">>, <<"usage setup", "">>,
                <<"usage agent", "">> >>)
    /\ pc' = "exited"
    /\ exitStatus' = 1
    /\ UNCHANGED <<inputs, runVars, participant, remoteTrunks, jobVars, worker, client, acloseCount, calls,
                   trunkReqs, callReqs, ruleReqs, trunk_id, returnedId, exc>>

\* command == "setup": asyncio.run(setup_inbound()), up to the first await
inbound_RunSetup ==
    /\ script = "inbound_agent" /\ pc = "__main__"
    /\ Len(argv) >= 1
    /\ InboundCommand(argv) = "setup"
    /\ IF LiveKitAPIOk(env)
       THEN /\ client' = "open"
            /\ pc' = "setup_trunk"
            /\ UNCHANGED <<exitStatus, exc>>
       ELSE /\ Uncaught(ValueError)
            /\ UNCHANGED client
    /\ UNCHANGED <<inputs, runVars, participant, remoteTrunks, jobVars, worker, acloseCount, calls, trunkReqs,
                   callReqs, ruleReqs, trunk_id, returnedId, out>>

\* command == "agent": sys.argv.pop(1), run_app
inbound_RunAgent ==
    /\ script = "inbound_agent" /\ pc = "__main__"
    /\ Len(argv) >= 1
    /\ InboundCommand(argv) # "setup"
    /\ InboundCommand(argv) = "agent"
    /\ argv' = Tail(argv)
    /\ worker' = TRUE
    /\ pc' = "run_app"
    /\ UNCHANGED <<script, env, runVars, participant, remoteTrunks, jobVars, exitStatus, client, acloseCount,
                   calls, trunkReqs, callReqs, ruleReqs, trunk_id,
                   returnedId, exc, out>>

\* else: print(f"Unknown command: {command}"); the module ends, exit 0
inbound_Unknown ==
    /\ script = "inbound_agent" /\ pc = "__main__"
    /\ Len(argv) >= 1
    /\ InboundCommand(argv) \notin {"setup", "agent"}
    /\ print(<< <<"Unknown command", InboundCommand(argv)>> >>)
    /\ pc' = "exited"
    /\ exitStatus' = 0
    /\ UNCHANGED <<inputs, runVars, participant, remoteTrunks, jobVars, worker, client, acloseCount, calls,
                   trunkReqs, callReqs, ruleReqs, trunk_id, returnedId, exc>>

\* setup_CreateTrunk going on to the dispatch rule after "already exists".
setup_CreateTrunk_Continue ==
    /\ script = "inbound_agent" /\ pc = "setup_trunk"
    /\ trunkReqs' = Append(trunkReqs, InboundTrunkInfo(env))
    /\ Issue("create_sip_inbound_trunk")
    /\ \/ \E id \in TrunkIds :
            /\ returnedId' = id
            /\ remoteTrunks' = remoteTrunks + 1
            /\ trunk_id' = id
            /\ print(<< <<"Setting up inbound call handling...", "">>,
                        <<"Creating inbound trunk...", "">>,
                        <<"Trunk created", id>> >>)
            /\ pc' = "setup_rule"
            /\ UNCHANGED exc
       \/ \E e \in ControlErrors :
            /\ exc' = e
            /\ print(<< <<"Setting up inbound call handling...", "">>,
                        <<"Creating inbound trunk...", "">> >>)
            /\ pc' = IF IsAlreadyExists(e) THEN "setup_rule"
                                           ELSE "setup_except"
            /\ UNCHANGED <<returnedId, trunk_id, remoteTrunks>>
    /\ UNCHANGED <<inputs, runVars, participant, jobVars, worker, exitStatus, client, acloseCount,
                   callReqs, ruleReqs>>

\* Step 1 of setup_inbound(): create the inbound trunk
setup_CreateTrunk ==
    /\ script = "inbound_agent" /\ pc = "setup_trunk"
    /\ trunkReqs' = Append(trunkReqs, InboundTrunkInfo(env))
    /\ Issue("create_sip_inbound_trunk")
    /\ \/ \E id \in TrunkIds :
            /\ returnedId' = id
            /\ remoteTrunks' = remoteTrunks + 1
            /\ trunk_id' = id
            /\ print(<< <<"Setting up inbound call handling...", "">>,
                        <<"Creating inbound trunk...", "">>,
                        <<"Trunk created", id>> >>)
            /\ pc' = "setup_rule"
            /\ UNCHANGED exc
       \/ \E e \in ControlErrors :
            /\ exc' = e
            /\ print(<< <<"Setting up inbound call handling...", "">>,
                        <<"Creating inbound trunk...", "">> >>)
            /\ pc' = "setup_except"
            /\ UNCHANGED <<returnedId, trunk_id, remoteTrunks>>
    /\ UNCHANGED <<inputs, runVars, participant, jobVars, worker, exitStatus, client, acloseCount,
                   callReqs, ruleReqs>>

\* Step 2 of setup_inbound(): create the dispatch rule
setup_CreateRule ==
    /\ script = "inbound_agent" /\ pc = "setup_rule"
    /\ ruleReqs' = Append(ruleReqs, DispatchRuleInfo(trunk_id))
    /\ Issue("create_sip_dispatch_rule")
    /\ \/ \E rid \in RuleIds :
            /\ print(<< <<"Creating dispatch rule...", "">>,
                        <<"Dispatch rule created", rid>>,
                        <<"Setup complete!", "">>,
                        <<"Next: python inbound_agent.py agent", "">> >>)
            /\ pc' = "setup_finally"
            /\ UNCHANGED exc
       \/ \E e \in ControlErrors :
            /\ exc' = e
            /\ print(<< <<"Creating dispatch rule...", "">> >>)
            /\ pc' = "setup_except"
    /\ UNCHANGED <<inputs, runVars, participant, remoteTrunks, jobVars, worker, exitStatus, client, acloseCount,
                   trunkReqs, callReqs, trunk_id, returnedId>>

\* except Exception as e: "already exists" is reported as configured
\* A handler that deletes the trunk the first step created.
setup_Except_Rollback ==
    /\ script = "inbound_agent" /\ pc = "setup_except"
    /\ IF IsAlreadyExists(exc)
       THEN print(<< <<"Already configured (trunk/rule exists)", "">> >>)
       ELSE print(<< <<"Error", Str(exc)>> >>)
    /\ IF returnedId # None
       THEN /\ Issue("delete_sip_trunk")
            /\ remoteTrunks' = remoteTrunks - 1
       ELSE UNCHANGED <<calls, remoteTrunks>>
    /\ pc' = "setup_finally"
    /\ UNCHANGED <<inputs, runVars, participant, jobVars, worker, exitStatus,
                   client, acloseCount, trunkReqs, callReqs, ruleReqs,
                   trunk_id, returnedId, exc>>

setup_Except ==
    /\ script = "inbound_agent" /\ pc = "setup_except"
    /\ IF IsAlreadyExists(exc)
       THEN print(<< <<"Already configured (trunk/rule exists)", "">> >>)
       ELSE print(<< <<"Error", Str(exc)>> >>)
    /\ pc' = "setup_finally"
    /\ UNCHANGED <<inputs, runVars, participant, remoteTrunks, jobVars, worker, exitStatus, client, acloseCount,
                   calls, trunkReqs, callReqs, ruleReqs, trunk_id,
                   returnedId, exc>>

\* finally: await lk_api.aclose()
setup_Finally ==
    /\ script = "inbound_agent" /\ pc = "setup_finally"
    /\ aclose
    /\ pc' = "exited"
    /\ exitStatus' = 0
    /\ UNCHANGED <<inputs, runVars, participant, remoteTrunks, jobVars, worker, trunkReqs, callReqs, ruleReqs,
                   trunk_id, returnedId, exc, out>>

\* ------------------------------------------------------------------------
\* make_call.py: make_outbound_call()
\* ------------------------------------------------------------------------

\* class Settings(BaseSettings) of make_call.py: every field is required.
MakeCallSettingsOk(e) ==
    e.creds /\ e.trunk_id # None /\ e.call_to # NoneText

\* A call request through a trunk written into the script.
MakeCallRequest_Hardcoded(tid, to) ==
    [sip_trunk_id |-> "TR_1", sip_call_to |-> to,
     room_name |-> "outbound-test-call",
     participant_identity |-> "outbound-caller",
     participant_name |-> "Test Caller",
     krisp_enabled |-> TRUE, wait_until_answered |-> TRUE]

\* CreateSIPParticipantRequest(...) of make_outbound_call()
MakeCallRequest(tid, to) ==
    [sip_trunk_id |-> tid, sip_call_to |-> to,
     room_name |-> "outbound-test-call",
     participant_identity |-> "outbound-caller",
     participant_name |-> "Test Caller",
     krisp_enabled |-> TRUE, wait_until_answered |-> TRUE]

\* A handler that shows the error code and message but not the SIP status.
TwirpLines_NoStatus(e) ==
    << <<"Call failed!", "">>, <<"Error code", e.code>>,
       <<"Message", e.message>> >>

\* A handler that explains the status code whether or not the status text
\* came with it.
TwirpLines_CodeOnly(e) ==
    LET sip_status == Get(e.metadata, "sip_status")
        sip_code   == Get(e.metadata, "sip_status_code")
        head == << <<"Call failed!", "">>, <<"Error code", e.code>>,
                   <<"Message", e.message>> >>
        status == << <<"SIP Status", <<sip_code, sip_status>> >>,
                     <<"SIP status typically means:", sip_code>> >>
        busy == << <<"busy: phone is busy or rejecting the call", "">>,
                   <<"busy: try calling a different number", "">>,
                   <<"busy: check if the number can receive calls", "">> >>
    IN  IF Truthy(sip_code)
        THEN IF sip_code = "486"
             THEN head \o status \o busy
             ELSE head \o status
        ELSE head

\* The lines the except TwirpError clause prints for e.
TwirpLines(e) ==
    LET sip_status == Get(e.metadata, "sip_status")
        sip_code   == Get(e.metadata, "sip_status_code")
        head == << <<"Call failed!", "">>, <<"Error code", e.code>>,
                   <<"Message", e.message>> >>
        status == << <<"SIP Status", <<sip_code, sip_status>> >>,
                     <<"SIP status typically means:", sip_code>> >>
        busy == << <<"busy: phone is busy or rejecting the call", "">>,
                   <<"busy: try calling a different number", "">>,
                   <<"busy: check if the number can receive calls", "">> >>
    IN  IF e.metadata # {}
        THEN IF Truthy(sip_status) /\ Truthy(sip_code)
             THEN IF sip_code = "486"
                  THEN head \o status \o busy
                  ELSE head \o status
             ELSE head
        ELSE head

\* The success report without the room of the response.
CallInitiatedLines_NoRoom(p) ==
    << <<"Call initiated!", "">>,
       <<"SIP Call ID", p.sip_call_id>>,
       <<"Participant ID", p.participant_id>> >>

\* The success report: the three fields of the response, each on its line.
CallInitiatedLines(p) ==
    << <<"Call initiated!", "">>,
       <<"SIP Call ID", p.sip_call_id>>,
       <<"Participant ID", p.participant_id>>,
       <<"Room", p.room_name>> >>

\* asyncio.run(make_outbound_call()): Settings(), LiveKitAPI(...)
make_call_Start ==
    /\ script = "make_call" /\ pc = "__main__"
    /\ IF MakeCallSettingsOk(env)
       THEN /\ client' = "open"
            /\ pc' = "make_call_call"
            /\ UNCHANGED <<exitStatus, exc>>
       ELSE /\ Uncaught(ValidationError)
            /\ UNCHANGED client
    /\ UNCHANGED <<inputs, runVars, participant, remoteTrunks, jobVars, worker, acloseCount, calls, trunkReqs,
                   callReqs, ruleReqs, trunk_id, returnedId, out>>

\* trunk_id = settings.SIP_TRUNK_ID; await create_sip_participant(...)
make_call_PlaceCall ==
    /\ script = "make_call" /\ pc = "make_call_call"
    /\ trunk_id' = env.trunk_id
    /\ callReqs' = Append(callReqs, MakeCallRequest(trunk_id', env.call_to))
    /\ Issue("create_sip_participant")
    /\ \/ \E p \in ParticipantInfos :
            /\ participant' = p
            /\ print(CallInitiatedLines(p))
            /\ pc' = "make_call_finally"
            /\ UNCHANGED exc
       \/ \E e \in CallErrors :
            /\ exc' = e
            /\ pc' = "make_call_except"
            /\ UNCHANGED <<out, participant>>
    /\ UNCHANGED <<inputs, runVars, remoteTrunks, jobVars, worker, exitStatus, client, acloseCount,
                   trunkReqs, ruleReqs, returnedId>>

\* except TwirpError as e: ... / except Exception as e: ...
make_call_Except ==
    /\ script = "make_call" /\ pc = "make_call_except"
    /\ IF exc.kind = "TwirpError"
       THEN print(TwirpLines(exc))
       ELSE print(<< <<"Unexpected error", <<exc.kind, Str(exc)>> >> >>)
    /\ pc' = "make_call_finally"
    /\ UNCHANGED <<inputs, runVars, participant, remoteTrunks, jobVars, worker, exitStatus, client, acloseCount,
                   calls, trunkReqs, callReqs, ruleReqs, trunk_id,
                   returnedId, exc>>

\* finally: await lk_api.aclose()
make_call_Finally ==
    /\ script = "make_call" /\ pc = "make_call_finally"
    /\ aclose
    /\ pc' = "exited"
    /\ exitStatus' = 0
    /\ UNCHANGED <<inputs, runVars, participant, remoteTrunks, jobVars, worker, trunkReqs, callReqs, ruleReqs,
                   trunk_id, returnedId, exc, out>>

\* ------------------------------------------------------------------------
\* main.py: __main__
\* ------------------------------------------------------------------------

\* agents.cli.run_app(agents.WorkerOptions(entrypoint_fnc=entrypoint))
mainpy_RunAgent ==
    /\ script = "main" /\ pc = "__main__"
    /\ worker' = TRUE
    /\ pc' = "run_app"
    /\ UNCHANGED <<inputs, runVars, participant, remoteTrunks, jobVars, exitStatus, client, acloseCount, calls,
                   trunkReqs, callReqs, ruleReqs, trunk_id, returnedId, exc,
                   out>>


\* ------------------------------------------------------------------------
\* The worker: entrypoint(ctx), one coroutine per assigned job
\* ------------------------------------------------------------------------

\* Entrypoints that join the room and wait for the participant themselves
\* (inbound_agent.py, outbound_agent.py, outbound_annotated.py).
Telephony == {"outbound_agent", "outbound_annotated", "inbound_agent"}

\* One performed step of an entrypoint: its name and the session it used.
Step(name, sid) == <<name, sid>>

Did(j, steps) == jlog' = [jlog EXCEPT ![j] = jlog[j] \o steps]
At(j, where)  == jpc' = [jpc EXCEPT ![j] = where]

\* A module-level session that every job reuses.
NewSession_Shared(j) ==
    /\ sessions' = 1
    /\ jsession' = [jsession EXCEPT ![j] = 1]

\* session = AgentSession(...): a fresh object, kept in the local `session`
NewSession(j) ==
    /\ sessions' = sessions + 1
    /\ jsession' = [jsession EXCEPT ![j] = sessions + 1]

\* The runtime calls entrypoint(ctx) for a job; it runs to its first await.
\* Telephony entrypoints: await ctx.connect(...).
entry_BeginConnect(j) ==
    /\ worker /\ script \in Telephony
    /\ jpc[j] = "unassigned"
    /\ Did(j, << Step("connect", 0) >>)
    /\ At(j, "connect")
    /\ UNCHANGED <<inputs, runVars, remoteTrunks, procVars, worker, jsession, joined, sessions>>

\* main.py: the session is constructed and session.start(...) awaited.
entry_BeginSession(j) ==
    /\ worker /\ script = "main"
    /\ jpc[j] = "unassigned"
    /\ \/ /\ NewSession(j)
          /\ Did(j, << Step("construct", sessions + 1),
                       Step("start", sessions + 1) >>)
          /\ At(j, "start")
       \/ /\ Did(j, << Step("construct", 0) >>)   \* a plugin constructor raises
          /\ At(j, "failed")
          /\ UNCHANGED <<jsession, sessions>>
    /\ UNCHANGED <<inputs, runVars, remoteTrunks, procVars, worker, joined>>

\* The remote party appears in the job's room.
runtime_ParticipantJoins(j) ==
    /\ worker
    /\ jpc[j] \in {"connect", "wait"}
    /\ ~joined[j]
    /\ joined' = [joined EXCEPT ![j] = TRUE]
    /\ UNCHANGED <<inputs, runVars, remoteTrunks, procVars, worker, jpc, jlog, jsession, sessions>>

\* entry_Connected without the wait for the participant.
entry_Connected_SkipWait(j) ==
    /\ jpc[j] = "connect"
    /\ \/ /\ NewSession(j)
          /\ Did(j, << Step("construct", sessions + 1),
                       Step("start", sessions + 1) >>)
          /\ At(j, "start")
       \/ /\ At(j, "failed")
          /\ UNCHANGED <<jlog, jsession, sessions>>
    /\ UNCHANGED <<inputs, runVars, remoteTrunks, procVars, worker, joined>>

\* ctx.connect() completes; participant = await ctx.wait_for_participant()
entry_Connected(j) ==
    /\ jpc[j] = "connect"
    /\ \/ /\ Did(j, << Step("wait", 0) >>)
          /\ At(j, "wait")
       \/ /\ At(j, "failed")                      \* ctx.connect() raises
          /\ UNCHANGED jlog
    /\ UNCHANGED <<inputs, runVars, remoteTrunks, procVars, worker, jsession, joined, sessions>>

\* A wait that gives up and goes on without the participant.
entry_ParticipantSeen_Timeout(j) ==
    /\ jpc[j] = "wait"
    /\ \/ /\ NewSession(j)
          /\ Did(j, << Step("construct", sessions + 1),
                       Step("start", sessions + 1) >>)
          /\ At(j, "start")
       \/ /\ At(j, "failed")
          /\ UNCHANGED <<jlog, jsession, sessions>>
    /\ UNCHANGED <<inputs, runVars, remoteTrunks, procVars, worker, joined>>

\* wait_for_participant() returns once the participant is in the room; the
\* session is constructed and session.start(...) awaited.
entry_ParticipantSeen(j) ==
    /\ jpc[j] = "wait"
    /\ \/ /\ joined[j]
          /\ NewSession(j)
          /\ Did(j, << Step("construct", sessions + 1),
                       Step("start", sessions + 1) >>)
          /\ At(j, "start")
       \/ /\ joined[j]
          /\ Did(j, << Step("construct", 0) >>)   \* a plugin constructor raises
          /\ At(j, "failed")
          /\ UNCHANGED <<jsession, sessions>>
       \/ /\ At(j, "failed")                      \* the wait itself raises
          /\ UNCHANGED <<jlog, jsession, sessions>>
    /\ UNCHANGED <<inputs, runVars, remoteTrunks, procVars, worker, joined>>

\* entry_Started with a start failure that is swallowed before the greeting.
entry_Started_GreetAnyway(j) ==
    /\ jpc[j] = "start"
    /\ \/ /\ script \in Outbound
          /\ At(j, "sleep")
          /\ UNCHANGED jlog
       \/ /\ script \notin Outbound
          /\ Did(j, << Step("generate_reply", jsession[j]) >>)
          /\ At(j, "greet")
       \/ /\ Did(j, << Step("generate_reply", jsession[j]) >>)
          /\ At(j, "failed")
    /\ UNCHANGED <<inputs, runVars, remoteTrunks, procVars, worker, jsession,
                   joined, sessions>>

\* session.start() completes.  outbound: await asyncio.sleep(0.5) comes
\* first; the others await session.generate_reply(...) at once.
entry_Started(j) ==
    /\ jpc[j] = "start"
    /\ \/ /\ script \in Outbound
          /\ At(j, "sleep")
          /\ UNCHANGED jlog
       \/ /\ script \notin Outbound
          /\ Did(j, << Step("generate_reply", jsession[j]) >>)
          /\ At(j, "greet")
       \/ /\ At(j, "failed")                      \* session.start() raises
          /\ UNCHANGED jlog
    /\ UNCHANGED <<inputs, runVars, remoteTrunks, procVars, worker, jsession, joined, sessions>>

\* asyncio.sleep(0.5) completes; await session.generate_reply(...)
entry_Slept(j) ==
    /\ jpc[j] = "sleep"
    /\ Did(j, << Step("generate_reply", jsession[j]) >>)
    /\ At(j, "greet")
    /\ UNCHANGED <<inputs, runVars, remoteTrunks, procVars, worker, jsession, joined, sessions>>

\* generate_reply() completes; the entrypoint returns
entry_Greeted(j) ==
    /\ jpc[j] = "greet"
    /\ \/ At(j, "done")
       \/ At(j, "failed")                         \* generate_reply() raises
    /\ UNCHANGED <<inputs, runVars, remoteTrunks, procVars, worker, jlog, jsession, joined, sessions>>

\* ------------------------------------------------------------------------
\* Specification
\* ------------------------------------------------------------------------
\* The operator runs the same command again in the same environment once the
\* previous process has exited.  A new process starts from the top of the
\* script: nothing of the previous process survives but what it created
\* remotely.
Rerun ==
    /\ pc = "exited" /\ run < MaxRuns
    /\ run' = run + 1
    /\ priorTrunkReqs' = priorTrunkReqs + Len(trunkReqs)
    /\ pc' = "__main__"
    /\ exitStatus' = -1
    /\ client' = "none"
    /\ acloseCount' = 0
    /\ calls' = << >>
    /\ trunkReqs' = << >>
    /\ callReqs' = << >>
    /\ ruleReqs' = << >>
    /\ trunk_id' = None
    /\ returnedId' = None
    /\ exc' = NoExc
    /\ out' = << >>
    /\ participant' = NoParticipant
    /\ UNCHANGED <<inputs, jobVars, worker, remoteTrunks>>

Next ==
    \/ demo_Start \/ demo_CreateTrunk \/ demo_Close
    \/ outbound_RunAgent \/ outbound_RunMain
    \/ main_CreateTrunk \/ main_PlaceCall \/ main_Except \/ main_Finally
    \/ inbound_Usage \/ inbound_RunSetup \/ inbound_RunAgent
    \/ inbound_Unknown
    \/ setup_CreateTrunk \/ setup_CreateRule \/ setup_Except
    \/ setup_Finally
    \/ make_call_Start \/ make_call_PlaceCall \/ make_call_Except
    \/ make_call_Finally
    \/ mainpy_RunAgent
    \/ Rerun
    \/ \E j \in Jobs :
         \/ entry_BeginConnect(j) \/ entry_BeginSession(j)
         \/ runtime_ParticipantJoins(j)
         \/ entry_Connected(j) \/ entry_ParticipantSeen(j)
         \/ entry_Started(j) \/ entry_Slept(j) \/ entry_Greeted(j)

Spec == Init /\ [][Next]_vars


\* ------------------------------------------------------------------------
\* Properties
\* ------------------------------------------------------------------------

\* Some printed line carries this tag.
HasLine(tag) == \E i \in 1..Len(out) : out[i][1] = tag

\* The trunk-creation request was sent and raised instead of returning.
TrunkCreationFailed == Len(trunkReqs) > 0 /\ returnedId = None

\* The names of the steps a job has performed, in order.
Steps(j) == [i \in 1..Len(jlog[j]) |-> jlog[j][i][1]]

\* s is an initial segment of t.
IsPrefix(s, t) == Len(s) <= Len(t) /\ \A i \in 1..Len(s) : s[i] = t[i]

Provisioning == Outbound \cup {"inbound_agent"}

\* The error's message says "already exists", in whatever letter case.
SaysAlreadyExists(e) == e.message \in {MsgExistsLower, MsgExistsMixed}

\* C1: in main() of the outbound scripts a call-placement request is sent
\* only after the trunk-creation request returned an identifier, and when
\* trunk creation raised an error that is not "already exists" no
\* call-placement request is sent at all.
C1_CallOnlyAfterTrunk ==
    script \in Outbound =>
        /\ \A i \in 1..Len(calls) :
              calls[i] = "create_sip_participant" =>
                  /\ \E k \in 1..(i - 1) :
                        calls[k] = "create_sip_outbound_trunk"
                  /\ returnedId \in TrunkIds
        /\ (TrunkCreationFailed /\ ~SaysAlreadyExists(exc)) => callReqs = << >>

C1_Witness ==
    /\ script \in Outbound
    /\ pc = "exited"
    /\ calls = <<"create_sip_outbound_trunk", "create_sip_participant",
                 "aclose">>

\* C2: every invocation that created a control-plane client has released
\* it exactly once when it ends.
C2_ReleasedExactlyOnce ==
    /\ acloseCount <= 1
    /\ (pc = "exited" /\ client # "none") => acloseCount = 1

\* C3 as stated: an "already exists" error of trunk creation does not abort
\* the sequence (the call is still placed, the dispatch rule still created),
\* and any other error aborts it.
C3_AlreadyExistsContinues ==
    (script \in Provisioning /\ pc = "exited" /\ TrunkCreationFailed
     /\ env.call_to # NoneText) =>
        IF SaysAlreadyExists(exc)
        THEN IF script \in Outbound
             THEN Len(callReqs) = 1
             ELSE Len(ruleReqs) = 1
        ELSE callReqs = << >> /\ ruleReqs = << >>

\* C3 as amended: any error of a control-plane operation aborts the
\* sequence, "already exists" included: no later step is performed.  The
\* match on "already exists" only decides what setup_inbound() reports
\* (configured, not an error); main() reports every error as an error.
C3_AnyErrorAborts ==
    script \in Provisioning =>
        /\ TrunkCreationFailed =>
              /\ callReqs = << >> /\ ruleReqs = << >>
              /\ pc \in {"main_except", "main_finally", "setup_except",
                         "setup_finally", "exited"}
        /\ (pc = "exited" /\ exc.kind \in {"TwirpError", "ClientError"}) =>
              /\ calls[Len(calls)] = "aclose"
              /\ Len(calls) = Len(trunkReqs) + Len(callReqs)
                              + Len(ruleReqs) + 1
              /\ IF script = "inbound_agent" /\ SaysAlreadyExists(exc)
                 THEN /\ HasLine("Already configured (trunk/rule exists)")
                      /\ ~HasLine("Error")
                 ELSE /\ HasLine("Error")
                      /\ ~HasLine("Already configured (trunk/rule exists)")

C3_Witness ==
    /\ script = "inbound_agent"
    /\ pc = "exited"
    /\ TrunkCreationFailed
    /\ exc.message = MsgExistsMixed
    /\ ruleReqs = << >>

\* The busy explanation of the except TwirpError clause was printed.
BusyExplained ==
    /\ HasLine("busy: phone is busy or rejecting the call")
    /\ HasLine("busy: try calling a different number")
    /\ HasLine("busy: check if the number can receive calls")

\* C4: a TwirpError of make_outbound_call() carrying status code "486"
\* produces the busy explanation; one carrying any other status code
\* produces only error code, message and the "SIP Status" pair, and no
\* explanation or hint text.  (Stated for the failures whose metadata
\* carries both the status text and the status code.)
C4_BusyOnlyFor486 ==
    (script = "make_call" /\ pc \in {"make_call_finally", "exited"}
     /\ exc.kind = "TwirpError"
     /\ (\E p \in exc.metadata : p[1] = "sip_status" /\ p[2] # "")
     /\ (\E q \in exc.metadata : q[1] = "sip_status_code" /\ q[2] # "")) =>
        LET sip_code == Get(exc.metadata, "sip_status_code")
        IN  /\ HasLine("Call failed!") /\ HasLine("Error code")
            /\ HasLine("Message")
            /\ sip_code = "486" => BusyExplained
            /\ sip_code # "486" =>
                  /\ HasLine("SIP Status")
                  /\ ~HasLine("SIP status typically means:")
                  /\ ~HasLine("busy: phone is busy or rejecting the call")

\* C5: one run of main() sends exactly one trunk-creation request, and the
\* identifier its response carried is the sip_trunk_id of the
\* call-placement request, unchanged.
C5_TrunkIdFedUnchanged ==
    script \in Outbound =>
        /\ Len(trunkReqs) <= 1
        /\ (pc = "exited" /\ client # "none") => Len(trunkReqs) = 1
        /\ \A i \in 1..Len(callReqs) :
              /\ returnedId \in TrunkIds
              /\ callReqs[i].sip_trunk_id = returnedId

C5_Witness ==
    /\ script \in Outbound
    /\ pc = "exited"
    /\ Len(trunkReqs) = 1
    /\ Len(callReqs) = 1
    /\ returnedId = "TR_2"

\* The five steps of a telephony entrypoint, and the three of main.py.
FiveSteps  == <<"connect", "wait", "construct", "start", "generate_reply">>
ThreeSteps == <<"construct", "start", "generate_reply">>

\* C6 as stated: every entrypoint that finishes has performed room-join,
\* participant-wait, pipeline construction, pipeline start and one
\* generated reply, in that order, each exactly once.
C6_EveryEntrypointFiveSteps ==
    \A j \in Jobs : jpc[j] = "done" => Steps(j) = FiveSteps

\* C6 as amended: the entrypoints of inbound_agent.py, outbound_agent.py
\* and outbound_annotated.py perform the five steps in that order, each
\* exactly once; the entrypoint of main.py performs only construction,
\* start and one generated reply, in that order.  At no moment has a job
\* performed a step out of that order.
C6_StepsInOrder ==
    \A j \in Jobs :
        LET plan == IF script \in Telephony THEN FiveSteps ELSE ThreeSteps
        IN  /\ IsPrefix(Steps(j), plan)
            /\ jpc[j] = "done" => Steps(j) = plan

C6_Witness ==
    /\ script \in Telephony
    /\ \E j \in Jobs : jpc[j] = "done" /\ Len(jlog[j]) = 5

\* C7: the outbound trunk-provisioning request carries the configured SIP
\* address, caller-id number, auth username and auth password, and the
\* display name, each with exactly its configured value.
C7_TrunkRequestCarriesConfig ==
    script \in Outbound \cup {"demo"} =>
        \A i \in 1..Len(trunkReqs) :
            /\ trunkReqs[i].name = "Twilio Outbound"
            /\ trunkReqs[i].address = env.address
            /\ trunkReqs[i].numbers = <<env.number>>
            /\ trunkReqs[i].auth_username = env.username
            /\ trunkReqs[i].auth_password = env.password
            /\ DOMAIN trunkReqs[i] = {"name", "address", "numbers",
                                     "auth_username", "auth_password"}

C7_Witness ==
    /\ script \in Outbound
    /\ Len(trunkReqs) = 1
    /\ env.username # env.password
    /\ env.address = "other.pstn.example.com"

\* The invocations the scripts document for provisioning or call placement:
\* demo.py, make_call.py and the outbound scripts without a word,
\* inbound_agent.py with "setup".
DocumentedProvisioning ==
    \/ script \in {"demo", "make_call"} \cup Outbound /\ argv = << >>
    \/ script = "inbound_agent" /\ Len(argv) > 0
          /\ LowerWord(argv[1]) = "setup"

\* A value the script's provisioning or call-placement code needs is unset.
MissingValue ==
    \/ ~env.creds
    \/ script \in Outbound \cup {"make_call"} /\ env.call_to = NoneText
    \/ script = "make_call" /\ env.trunk_id = None

\* The first command-line word is none of the script's subcommands (the
\* environment is complete).
UnknownSubcommand ==
    /\ ~MissingValue
    /\ script \in ModeScripts
    /\ Len(argv) > 0
    /\ IF script = "inbound_agent"
       THEN LowerWord(argv[1]) \notin {"setup", "agent"}
       ELSE argv[1] # "agent"

\* C8: an unknown subcommand prints usage, makes the process exit with a
\* non-zero status, performs no remote operation and starts no worker.
C8_UnknownSubcommandRejected ==
    UnknownSubcommand =>
        /\ calls = << >> /\ ~worker
        /\ pc = "exited" => (exitStatus # 0 /\ HasLine("Usage:"))

\* A documented provisioning run with a required value unset.
MissingRequired == DocumentedProvisioning /\ MissingValue

\* C9: with a required environment value missing the script aborts before
\* any remote control-plane call: no trunk-creation, dispatch-rule or
\* call-placement request is sent.
C9_MissingValueNoRemoteCall ==
    MissingRequired =>
        /\ trunkReqs = << >> /\ ruleReqs = << >> /\ callReqs = << >>
        /\ pc = "exited" => exitStatus # 0

\* C10: an error raised by a remote operation is caught and printed, never
\* re-raised: the invocation reaches its client release and the process
\* exits with status zero.
C10_RemoteErrorsSwallowed ==
    (pc = "exited" /\ exc.kind \in {"TwirpError", "ClientError"}) =>
        /\ exitStatus = 0
        /\ acloseCount = 1
        /\ out # << >>


\* ---------------------------------------------------------------------------
\* C11
\* ---------------------------------------------------------------------------
\* The number of times process operation op was issued in a call log.
Count(log, op) == Cardinality({i \in 1..Len(log) : log[i] = op})

ControlOps == {"create_sip_outbound_trunk", "create_sip_inbound_trunk",
               "create_sip_dispatch_rule", "create_sip_participant"}

RemoteOpFailed == exc.kind \in {"TwirpError", "ClientError"}

\* C11: within one invocation of a script every control-plane operation is
\* issued at most once, and once a remote operation has failed the only
\* remote operation still issued is the release of the client.
C11_NoRetry ==
    [][run' = run =>
         /\ \A op \in ControlOps : Count(calls', op) <= 1
         /\ RemoteOpFailed =>
               calls' \in {calls, Append(calls, "aclose")}]_vars

\* A call placement failed after the trunk was created, and the process
\* ended having issued the trunk request, the call request and the release.
C11_Witness ==
    /\ script \in Outbound /\ pc = "exited" /\ RemoteOpFailed
    /\ calls = <<"create_sip_outbound_trunk", "create_sip_participant",
                 "aclose">>

\* ---------------------------------------------------------------------------
\* C12
\* ---------------------------------------------------------------------------
\* The state of the outbound provisioning sequence, as a rank:
\* 0 Unprovisioned, 1 TrunkReady (trunk creation returned an identifier),
\* 2 CallPlaced (call placement returned a response).
ProvRank ==
    IF participant # NoParticipant THEN 2
    ELSE IF returnedId # None THEN 1 ELSE 0

OutboundSequence == Outbound \cup {"demo"}

\* The error left the sequence: the process ended on it, nothing caught it
\* and nothing was reported by the sequence itself.
ErrorPropagated == exitStatus = 1 /\ ~HasLine("Error")

\* The error was caught inside the sequence, shown and the sequence returned.
ErrorReported == exitStatus = 0 /\ HasLine("Error") /\ client = "closed"

\* C12 as stated: the sequence only moves forward one state at a time, and a
\* trunk creation failing with an error that does not say "already exists"
\* leaves it Unprovisioned and propagates the error to the caller.
C12_FailurePropagates ==
    [][(run' = run /\ script \in OutboundSequence) =>
         /\ ProvRank' \in {ProvRank, ProvRank + 1}
         /\ (TrunkCreationFailed' /\ ~SaysAlreadyExists(exc')) =>
               /\ ProvRank' = 0
               /\ pc' = "exited" => ErrorPropagated']_vars

\* C12 (amended): the sequence only moves forward one state at a time; a
\* failed trunk creation, whatever its message, leaves it Unprovisioned; in
\* main() the error is caught, printed and the sequence returns normally
\* after releasing the client, while in demo.py it leaves the coroutine.
C12_ForwardOnly ==
    [][(run' = run /\ script \in OutboundSequence) =>
         /\ ProvRank' \in {ProvRank, ProvRank + 1}
         /\ TrunkCreationFailed' =>
               /\ ProvRank' = 0
               /\ (pc' = "exited" /\ script \in Outbound) => ErrorReported'
               /\ (pc' = "exited" /\ script = "demo") => ErrorPropagated']_vars

\* main() ended after a trunk creation that failed with a permission error.
C12_Witness ==
    /\ script \in Outbound /\ pc = "exited"
    /\ TrunkCreationFailed /\ ~SaysAlreadyExists(exc)
    /\ ProvRank = 0 /\ ErrorReported

\* ---------------------------------------------------------------------------
\* C13
\* ---------------------------------------------------------------------------
CallPlacers == Outbound \cup {"make_call"}

\* A rejection at the telephony layer: a TwirpError whose metadata carries
\* the SIP status and the SIP status code.
TelephonyRejection(e) ==
    /\ e.kind = "TwirpError"
    /\ \E p \in e.metadata : p[1] = "sip_status" /\ p[2] # ""
    /\ \E q \in e.metadata : q[1] = "sip_status_code" /\ q[2] # ""

SipOf(e, key) == (CHOOSE p \in e.metadata : p[1] = key)[2]

CallRejected ==
    script \in CallPlacers /\ Len(callReqs) > 0 /\ TelephonyRejection(exc)

HasEntry(line) == \E i \in 1..Len(out) : out[i] = line

\* The categorized report: the error code and the telephony status.
Categorized ==
    /\ HasLine("Call failed!")
    /\ HasEntry(<<"Error code", exc.code>>)
    /\ HasEntry(<<"SIP Status", <<SipOf(exc, "sip_status_code"),
                                  SipOf(exc, "sip_status")>> >>)

\* The report shown for a generic or unexpected failure.
GenericReport == HasLine("Error") \/ HasLine("Unexpected error")

C14_RuleAfterTrunk ==
    script = "inbound_agent" =>
        /\ TrunkCreationFailed => ruleReqs = << >>
        /\ \A i \in 1..Len(ruleReqs) :
              /\ returnedId # None
              /\ ruleReqs[i].trunk_ids = <<returnedId>>
              /\ \E k \in 1..Len(calls) :
                    /\ calls[k] = "create_sip_inbound_trunk"
                    /\ \A m \in 1..k : calls[m] # "create_sip_dispatch_rule"

\* setup_inbound created trunk TR_2 and then issued the rule request.
C14_Witness ==
    /\ script = "inbound_agent" /\ returnedId = "TR_2"
    /\ Len(ruleReqs) = 1 /\ ruleReqs[1].trunk_ids = <<"TR_2">>

\* ---------------------------------------------------------------------------
\* C15
\* ---------------------------------------------------------------------------
\* A trunk-creation or dispatch-rule operation of this invocation answered
\* "already exists".
AlreadyExistsAnswered ==
    /\ script \in Provisioning
    /\ Len(trunkReqs) > 0
    /\ SaysAlreadyExists(exc)

\* C15: every caller of a trunk-creation or dispatch-rule operation reports
\* an "already exists" answer, whatever the case of its letters, as a
\* success-equivalent outcome and never as an error.
C15_AlreadyExistsIsSuccess ==
    (AlreadyExistsAnswered /\ pc = "exited") =>
        /\ ~HasLine("Error")
        /\ HasLine("Already configured (trunk/rule exists)")
        /\ exitStatus = 0

\* ---------------------------------------------------------------------------
\* C16
\* ---------------------------------------------------------------------------
\* Job j has issued its greeting.
Greeted(j) == \E i \in 1..Len(jlog[j]) : jlog[j][i][1] = "generate_reply"

\* The positions of an entrypoint at which one of steps 1-4 is pending.
BeforeGreeting == {"unassigned", "connect", "wait", "start", "sleep"}

\* C16: an exception raised by room join, participant wait, pipeline
\* construction or pipeline start ends the job with that exception: the job
\* has issued no greeting, and a job that has ended so performs no further
\* step.
C16_FailureAbortsJob ==
    [][\A j \in Jobs :
         /\ (jpc[j] \in BeforeGreeting /\ jpc'[j] = "failed") => ~Greeted(j)'
         /\ jpc[j] = "failed" => (jpc'[j] = "failed" /\ jlog'[j] = jlog[j])
      ]_vars

\* A telephony job whose pipeline start raised: it joined, waited,
\* constructed and started, and went no further.
C16_Witness ==
    \E j \in Jobs :
        /\ jpc[j] = "failed"
        /\ Steps(j) = <<"connect", "wait", "construct", "start">>

\* ---------------------------------------------------------------------------
\* C17
\* ---------------------------------------------------------------------------
\* The sessions job j has constructed, started or greeted through.
SessionsUsed(j) == {jlog[j][i][2] : i \in 1..Len(jlog[j])} \ {0}

\* C17: jobs interleaved in one worker process each construct and use their
\* own session: a job starts and greets only through the session it
\* constructed, and no session is used by two jobs.
C17_OwnSession ==
    /\ \A j \in Jobs : SessionsUsed(j) \subseteq {jsession[j]}
    /\ \A j, k \in Jobs :
          j # k => SessionsUsed(j) \cap SessionsUsed(k) = {}

\* Two jobs are in flight at once, one greeting and one still starting, on
\* different sessions.
C17_Witness ==
    \E j, k \in Jobs :
        /\ j # k
        /\ jpc[j] = "greet" /\ jpc[k] = "start"
        /\ SessionsUsed(j) # {} /\ SessionsUsed(k) # {}
        /\ jsession[j] # jsession[k]

\* ---------------------------------------------------------------------------
\* C18
\* ---------------------------------------------------------------------------
\* An invocation that got as far as its provisioning sequence has ended.
SequenceEnded ==
    script \in Provisioning /\ pc = "exited" /\ client # "none"

\* C18: every run of a provisioning script issues its trunk-creation request,
\* whatever earlier runs created remotely: when the N-th run has ended, the
\* runs together have issued N trunk-creation requests.
C18_EveryRunRequestsTrunk ==
    SequenceEnded =>
        /\ Len(trunkReqs) = 1
        /\ priorTrunkReqs + Len(trunkReqs) = run

\* The second run of the outbound script has ended; the first run had
\* created a trunk, and the second issued its request all the same.
C18_Witness ==
    /\ script \in Outbound /\ SequenceEnded
    /\ run = 2 /\ priorTrunkReqs = 1
    /\ remoteTrunks = 2 /\ Len(trunkReqs) = 1

\* ---------------------------------------------------------------------------
\* C19
\* ---------------------------------------------------------------------------
\* Call placement returned a response.
CallPlaced == script \in CallPlacers /\ participant # NoParticipant

\* The three identifiers of the response are on the operator's screen.
IdentifiersDisplayed ==
    /\ HasEntry(<<"SIP Call ID", participant.sip_call_id>>)
    /\ HasEntry(<<"Participant ID", participant.participant_id>>)
    /\ HasEntry(<<"Room", participant.room_name>>)

\* C19 as stated: in every script that places a call, a successful placement
\* shows the returned call identifier, participant identifier and room name.
C19_IdentifiersShownEverywhere ==
    CallPlaced => IdentifiersDisplayed

\* C19 (amended): make_outbound_call shows the three returned identifiers;
\* main() drops the response and shows only the fixed line "Call initiated".
C19_IdentifiersShown ==
    CallPlaced =>
        /\ script = "make_call" => IdentifiersDisplayed
        /\ script \in Outbound =>
              /\ out[Len(out)] = <<"Call initiated", "">>
              /\ ~HasLine("SIP Call ID")
              /\ ~HasLine("Participant ID")
              /\ ~HasLine("Room")

\* make_outbound_call placed a call and showed the second response.
C19_Witness ==
    /\ script = "make_call" /\ CallPlaced
    /\ participant.sip_call_id = "SCL_2"
    /\ IdentifiersDisplayed

\* ---------------------------------------------------------------------------
\* C20
\* ---------------------------------------------------------------------------
\* Job j has gone past the participant wait.
PastWait(j) ==
    \E i \in 1..Len(jlog[j]) :
        jlog[j][i][1] \in {"construct", "start", "generate_reply"}

\* C20: a telephony entrypoint stays at the participant wait for as long as
\* the remote party has not been observed: until then the job has neither
\* constructed nor started its pipeline nor greeted, and it can only be
\* waiting or have ended with an exception.
C20_SuspendedUntilParticipant ==
    script \in Telephony =>
        \A j \in Jobs :
            ~joined[j] =>
                /\ ~PastWait(j)
                /\ jpc[j] \in {"unassigned", "connect", "wait", "failed"}

\* One job is suspended at the wait, its party not yet there, while another
\* job of the same worker has run to its end.
C20_Witness ==
    \E j, k \in Jobs :
        /\ jpc[j] = "wait" /\ ~joined[j] /\ ~PastWait(j)
        /\ jpc[k] = "done" /\ joined[k]

\* ---------------------------------------------------------------------------
\* C21
\* ---------------------------------------------------------------------------
\* C21: in every invocation the release of the client is the last remote
\* interaction: nothing follows an aclose in the order of issued operations,
\* and a closed client has its release as the last operation.
C21_ReleaseIsLast ==
    /\ \A i \in 1..Len(calls) : calls[i] = "aclose" => i = Len(calls)
    /\ client = "closed" =>
          (calls # << >> /\ calls[Len(calls)] = "aclose")

\* setup_inbound released the client after its dispatch-rule creation failed.
C21_Witness ==
    /\ script = "inbound_agent" /\ client = "closed" /\ exc # NoExc
    /\ calls = <<"create_sip_inbound_trunk", "create_sip_dispatch_rule",
                 "aclose">>

\* ---------------------------------------------------------------------------
\* C22
\* ---------------------------------------------------------------------------
\* The first step of a provisioning sequence created its trunk and the
\* second step then failed.
SecondStepFailed ==
    script \in Provisioning /\ returnedId # None /\ exc # NoExc

\* What the handler shows for the failure.
FailureShown ==
    HasLine("Error") \/ HasLine("Already configured (trunk/rule exists)")

\* C22: once the second step has failed after the first created its trunk,
\* the trunk stays in place remotely and the script issues nothing but the
\* release of the client; it ends having shown the failure and released the
\* client.
C22_NoRollback ==
    [][(SecondStepFailed /\ run' = run) =>
         /\ remoteTrunks' = remoteTrunks
         /\ calls' \in {calls, Append(calls, "aclose")}
         /\ pc' = "exited" => (FailureShown' /\ client' = "closed")]_vars

\* setup_inbound ended after its dispatch-rule creation failed; the trunk
\* of its first step is still there.
C22_Witness ==
    /\ script = "inbound_agent" /\ SecondStepFailed /\ pc = "exited"
    /\ run = 1 /\ remoteTrunks = 1
    /\ Len(ruleReqs) = 1 /\ HasLine("Error")

\* ---------------------------------------------------------------------------
\* C23
\* ---------------------------------------------------------------------------
\* A script with two modes is at its start with first argument a / with none.
StartsWith(a) ==
    script \in ModeScripts /\ pc = "__main__" /\ argv # << >> /\ argv[1] = a

StartsBare == script \in ModeScripts /\ pc = "__main__" /\ argv = << >>

\* No provisioning or call-placement request was issued and no client made.
NothingRemote ==
    /\ calls = << >> /\ trunkReqs = << >>
    /\ callReqs = << >> /\ ruleReqs = << >>
    /\ client = "none"

\* C23: with first argument "agent" a script removes the argument and starts
\* the worker, and a worker process never issues a provisioning or
\* call-placement request; in provisioning mode ("setup" for the inbound
\* script, any other first argument or none for the outbound scripts) the
\* worker is not started; the inbound script without argument prints usage
\* and exits with status 1, doing neither.
C23_ModesExclusive ==
    [][/\ StartsWith("agent") =>
            (worker' /\ argv' = Tail(argv) /\ pc' = "run_app")
       /\ worker' => NothingRemote'
       /\ (script = "inbound_agent" /\ StartsWith("setup")) => ~worker'
       /\ (script \in Outbound /\ (StartsBare \/
               \E a \in {"setup", "AGENT", "Setup", "bogus"} : StartsWith(a)))
            => ~worker'
       /\ (script = "inbound_agent" /\ StartsBare) =>
            /\ pc' = "exited" /\ exitStatus' = 1
            /\ HasLine("Usage:")'
            /\ ~worker' /\ NothingRemote'
      ]_vars

\* The inbound script was started with "agent": the argument is gone, the
\* worker runs a job, and nothing was provisioned.
C23_Witness ==
    /\ script = "inbound_agent" /\ worker /\ argv = << >>
    /\ jpc[1] = "wait"
    /\ NothingRemote

\* ---------------------------------------------------------------------------
\* C24
\* ---------------------------------------------------------------------------
\* C24: make_outbound_call never issues a trunk-creation (or dispatch-rule)
\* request; once it has run, it has issued exactly one call-placement
\* request, through the configured SIP_TRUNK_ID unchanged and with answer
\* wait and noise suppression on, followed by the release of the client and
\* by nothing else.
C24_OneCallThroughConfiguredTrunk ==
    script = "make_call" =>
        /\ trunkReqs = << >> /\ ruleReqs = << >>
        /\ \A i \in 1..Len(calls) :
              calls[i] \in {"create_sip_participant", "aclose"}
        /\ \A i \in 1..Len(callReqs) :
              /\ callReqs[i].sip_trunk_id = env.trunk_id
              /\ callReqs[i].wait_until_answered
              /\ callReqs[i].krisp_enabled
        /\ (pc = "exited" /\ client # "none") =>
              /\ calls = <<"create_sip_participant", "aclose">>
              /\ Len(callReqs) = 1

\* make_outbound_call has run with SIP_TRUNK_ID = TR_2 and placed its call.
C24_Witness ==
    /\ script = "make_call" /\ pc = "exited" /\ env.trunk_id = "TR_2"
    /\ Len(callReqs) = 1 /\ callReqs[1].sip_trunk_id = "TR_2"
    /\ calls = <<"create_sip_participant", "aclose">>

\* ---------------------------------------------------------------------------
\* C25
\* ---------------------------------------------------------------------------
\* The telephony-error handler of make_outbound_call has run.
TwirpHandled ==
    /\ script = "make_call" /\ exc.kind = "TwirpError"
    /\ pc \in {"make_call_finally", "exited"}

\* The SIP status line or the hint header is on the screen.
StatusShown ==
    HasLine("SIP Status") \/ HasLine("SIP status typically means:")

\* One of the lines of the busy explanation is on the screen.
AnyBusyLine ==
    \/ HasLine("busy: phone is busy or rejecting the call")
    \/ HasLine("busy: try calling a different number")
    \/ HasLine("busy: check if the number can receive calls")

\* C25: the handler prints the SIP status line and the hint only for a
\* metadata that carries both a non-empty sip_status and a non-empty
\* sip_status_code; when either is missing, even with status code "486",
\* it prints the error code and the message and nothing more: no status
\* line, no hint, no busy explanation.
C25_StatusNeedsBothFields ==
    TwirpHandled =>
        /\ StatusShown => TelephonyRejection(exc)
        /\ ~TelephonyRejection(exc) =>
              /\ out = << <<"Call failed!", "">>, <<"Error code", exc.code>>,
                          <<"Message", exc.message>> >>
              /\ ~AnyBusyLine

\* The handler has run for a failure whose metadata carries status code
\* "486" and no status text.
C25_Witness ==
    /\ TwirpHandled
    /\ exc.metadata = {<<"sip_status_code", "486">>}
    /\ HasLine("Error code") /\ ~StatusShown /\ ~AnyBusyLine
====
